---- MODULE Spec2Model ----
(***************************************************************************)
(* Model of src/main.py: the model-fallback requester request_ai, the six  *)
(* HTTP handlers built on it, and the three text parsers.                  *)
(*                                                                         *)
(* Representation of Python values                                         *)
(*   str       a sequence of tokens.  A token is a maximal piece of text   *)
(*             that the patterns of the parsers treat as a unit: the       *)
(*             literals "Start:" and "End:", the words "Options" and       *)
(*             "answer" (so "OptionsStart:" is <<"Options","Start:">>),    *)
(*             one whitespace character, one decimal digit, or any other   *)
(*             word.  The string is the concatenation of its tokens.       *)
(*   Optional  <<>> is None, <<x>> is the value x.                         *)
(***************************************************************************)
EXTENDS Integers, Sequences, FiniteSets, TLC

VARIABLES
    pc,         \* position of the single inbound request
    endpoint,   \* the handler serving it
    prompt,     \* the prompt the handler built
    requests,   \* the prompts request_ai was invoked with, in order
    i,          \* index into top_models of the for loop of request_ai
    cur,        \* the awaited to_thread work item: "none", "queued", "running"
    running,    \* loop indices whose worker thread is inside client...create()
    calls,      \* model identifiers of the outbound calls issued, in order
    outcomes,   \* per issued call, once decided: "ok" or "fail"
    caught,     \* class of the exception an except clause caught last, or ""
    result,     \* what request_ai returned
    response,   \* the JSON body the handler returned
    pieces,     \* the pieces the parser input was put together from
    text,       \* the parser input
    parsed      \* the parser applied to text and what it returned

reqVars == <<pc, endpoint, prompt, requests, i, cur, running, calls, outcomes,
             caught, result, response>>

parseVars == <<pieces, text, parsed>>

vars == <<reqVars, parseVars>>

----------------------------------------------------------------------------
(* Bounds of the model *)

\* worker threads of the executor asyncio.to_thread submits to
PoolSize == 2

\* cap on the outbound calls one invocation may record
MaxCalls == 18

\* pieces a parser input is concatenated from
MaxPieces == 3

----------------------------------------------------------------------------
(* Optional values *)

None == <<>>

Some(x) == <<x>>

----------------------------------------------------------------------------
(* Text primitives: str.strip, str.splitlines, str.split, int, and the      *)
(* character classes \s and \d of the re module                             *)

Min(S) == CHOOSE x \in S : \A y \in S : x <= y

Max(S) == CHOOSE x \in S : \A y \in S : y <= x

\* the whitespace characters the inputs contain (class \s, and what strip removes)
WS == {" ", "\n"}

\* the line boundaries the inputs contain (str.splitlines)
LineBreaks == {"\n"}

DigitChars == <<"0", "1", "2", "3", "4", "5", "6", "7", "8", "9">>

\* class \d
IsDigit(t) == \E n \in 1..Len(DigitChars) : DigitChars[n] = t

\* a slip a port of int(match[2]) can make: the character code, ord("0") = 48
OrdOf(d) == 47 + (CHOOSE n \in 1..Len(DigitChars) : DigitChars[n] = d)

\* int(d) of a one-digit string
IntOf(d) == (CHOOSE n \in 1..Len(DigitChars) : DigitChars[n] = d) - 1

\* s.strip()
Strip(s) ==
    LET keep == {k \in 1..Len(s) : s[k] \notin WS}
    IN  IF keep = {} THEN <<>> ELSE SubSeq(s, Min(keep), Max(keep))

\* s.splitlines(): no empty last line after a final line break
RECURSIVE SplitLines(_)
SplitLines(s) ==
    IF s = <<>> THEN <<>>
    ELSE LET brk == {k \in 1..Len(s) : s[k] \in LineBreaks}
         IN  IF brk = {} THEN <<s>>
             ELSE <<SubSeq(s, 1, Min(brk) - 1)>>
                      \o SplitLines(SubSeq(s, Min(brk) + 1, Len(s)))

\* s.split(sep) for a one-token separator: always at least one part
RECURSIVE Split(_, _)
Split(s, sep) ==
    LET at == {k \in 1..Len(s) : s[k] = sep}
    IN  IF at = {} THEN <<s>>
        ELSE <<SubSeq(s, 1, Min(at) - 1)>>
                 \o Split(SubSeq(s, Min(at) + 1, Len(s)), sep)

\* where a greedy \s* started at p stops: the first non-whitespace position
SkipWS(s, p) ==
    LET stop == {k \in p..Len(s) : s[k] \notin WS}
    IN  IF stop = {} THEN Len(s) + 1 ELSE Min(stop)

\* the literal lit matches at position p
LitAt(s, p, lit) ==
    /\ p >= 1
    /\ p + Len(lit) - 1 <= Len(s)
    /\ SubSeq(s, p, p + Len(lit) - 1) = lit

\* where a lazy (.*?) started at from ends when the \s* after it must stop at
\* position to: the shortest capture
LazyEnd(s, from, to) == Min({e \in from..to : SkipWS(s, e) = to})

----------------------------------------------------------------------------
(* parse_questions: the pattern                                             *)
(*   Start:\s*(.*?)\s*End:\s*OptionsStart:\s*(.*?)\s*(\d)\s*OptionsEnd:     *)
(* with re.DOTALL, applied by findall                                       *)

OptionsStart == <<"Options", "Start:">>

OptionsEnd == <<"Options", "End:">>

\* (\d)\s*OptionsEnd: matches at j
DigitTailAt(s, j) ==
    /\ j <= Len(s)
    /\ IsDigit(s[j])
    /\ LitAt(s, SkipWS(s, j + 1), OptionsEnd)

\* End:\s*OptionsStart:\s* matches at k and the rest of the pattern after it
HeadAt(s, k) ==
    /\ s[k] = "End:"
    /\ LitAt(s, SkipWS(s, k + 1), OptionsStart)
    /\ \E j \in SkipWS(s, k + 1) + 2 .. Len(s) : DigitTailAt(s, j)

\* the pattern matches with its first character at p
MatchesAt(s, p) ==
    /\ s[p] = "Start:"
    /\ \E k \in p + 1 .. Len(s) : HeadAt(s, k)

\* the match a greedy first group (.*) gives: the last End: that fits
MatchAtGreedy(s, p) ==
    LET k  == Max({x \in p + 1 .. Len(s) : HeadAt(s, x)})
        p1 == SkipWS(s, p + 1)
        p2 == SkipWS(s, SkipWS(s, k + 1) + 2)
        j  == Min({x \in p2 .. Len(s) : DigitTailAt(s, x)})
    IN  [groups |-> << SubSeq(s, p1, LazyEnd(s, p1, k) - 1),
                       SubSeq(s, p2, LazyEnd(s, p2, j) - 1),
                       s[j] >>,
         end    |-> SkipWS(s, j + 1) + 2]

\* the match at p that backtracking finds first: both lazy groups as short as
\* they can be, the first one first.  groups are match[0], match[1], match[2];
\* end is the position after the match
MatchAt(s, p) ==
    LET k  == Min({x \in p + 1 .. Len(s) : HeadAt(s, x)})
        p1 == SkipWS(s, p + 1)
        p2 == SkipWS(s, SkipWS(s, k + 1) + 2)
        j  == Min({x \in p2 .. Len(s) : DigitTailAt(s, x)})
    IN  [groups |-> << SubSeq(s, p1, LazyEnd(s, p1, k) - 1),
                       SubSeq(s, p2, LazyEnd(s, p2, j) - 1),
                       s[j] >>,
         end    |-> SkipWS(s, j + 1) + 2]

\* pattern.findall(text): leftmost matches, none overlapping, scanning from pos
RECURSIVE FindAll(_, _)
FindAll(s, pos) ==
    LET starts == {p \in pos..Len(s) : MatchesAt(s, p)}
    IN  IF starts = {} THEN <<>>
        ELSE LET m == MatchAt(s, Min(starts))
             IN  <<m.groups>> \o FindAll(s, m.end)

\* [opt.strip() for opt in options_text.splitlines() if opt.strip()]
OptionLines(options_text) ==
    LET lines == SplitLines(options_text)
        strip(l) == Strip(l)
    IN  SelectSeq([n \in 1..Len(lines) |-> strip(lines[n])], LAMBDA l : l # <<>>)

\* the slip "if len(options) < 4: continue"
KeepsAtLeastFour(options) == Len(options) >= 4

\* the negation of the test "if len(options) != 4: continue"
KeepsMatch(options) == Len(options) = 4

\* the slip of reading the digit's character code
CorrectIndexOrd(digit) == OrdOf(digit)

\* correct_index = int(match[2])
CorrectIndex(digit) == IntOf(digit)

\* the body of the for loop over the matches, from match number n on
RECURSIVE QuestionsFrom(_, _)
QuestionsFrom(matches, n) ==
    IF n > Len(matches) THEN <<>>
    ELSE LET match         == matches[n]
             question_text == Strip(match[1])
             options_text  == Strip(match[2])
             correct_index == CorrectIndex(match[3])
             options       == OptionLines(options_text)
         IN  IF ~KeepsMatch(options)
             THEN QuestionsFrom(matches, n + 1)
             ELSE << [question           |-> question_text,
                      options            |-> options,
                      correctOptionIndex |-> correct_index] >>
                      \o QuestionsFrom(matches, n + 1)

parse_questions(s) == QuestionsFrom(FindAll(s, 1), 1)

----------------------------------------------------------------------------
(* parse_true_false_binary: the pattern                                     *)
(*   Start:\s*(.*?)\s*End:\s*answerStart:\s*(1|0)\s*answerEnd:              *)

answerStart == <<"answer", "Start:">>

answerEnd == <<"answer", "End:">>

\* End:\s*answerStart:\s*(1|0)\s*answerEnd: matches at k
AnswerAt(s, k) ==
    LET a == SkipWS(s, k + 1)
        b == SkipWS(s, a + 2)
    IN  /\ s[k] = "End:"
        /\ LitAt(s, a, answerStart)
        /\ b <= Len(s)
        /\ s[b] \in {"1", "0"}
        /\ LitAt(s, SkipWS(s, b + 1), answerEnd)

TFMatchesAt(s, p) ==
    /\ s[p] = "Start:"
    /\ \E k \in p + 1 .. Len(s) : AnswerAt(s, k)

TFMatchAt(s, p) ==
    LET k  == Min({x \in p + 1 .. Len(s) : AnswerAt(s, x)})
        p1 == SkipWS(s, p + 1)
        b  == SkipWS(s, SkipWS(s, k + 1) + 2)
    IN  [groups |-> << SubSeq(s, p1, LazyEnd(s, p1, k) - 1), s[b] >>,
         end    |-> SkipWS(s, b + 1) + 2]

RECURSIVE TFFindAll(_, _)
TFFindAll(s, pos) ==
    LET starts == {p \in pos..Len(s) : TFMatchesAt(s, p)}
    IN  IF starts = {} THEN <<>>
        ELSE LET m == TFMatchAt(s, Min(starts))
             IN  <<m.groups>> \o TFFindAll(s, m.end)

parse_true_false_binary(raw_text) ==
    LET matches == TFFindAll(raw_text, 1)
    IN  [n \in 1..Len(matches) |->
            [question |-> Strip(matches[n][1]),
             answer   |-> IntOf(matches[n][2])]]

----------------------------------------------------------------------------
(* parse_open_questions *)

\* part.split("End:")[0]: None where the index raises IndexError
FirstPiece(part) ==
    LET halves == Split(part, "End:")
    IN  IF Len(halves) >= 1 THEN Some(halves[1]) ELSE None

\* the for loop over parts[1:], from part number n on
RECURSIVE OpenFrom(_, _)
OpenFrom(parts, n) ==
    IF n > Len(parts) THEN <<>>
    ELSE LET first == FirstPiece(parts[n])
         IN  IF first = None
             THEN OpenFrom(parts, n + 1)
             ELSE <<Strip(first[1])>> \o OpenFrom(parts, n + 1)

parse_open_questions(raw_text) == OpenFrom(Split(raw_text, "Start:"), 2)

----------------------------------------------------------------------------
(* Inputs: texts in the format the prompts ask the model for *)

RECURSIVE Concat(_)
Concat(ss) == IF ss = <<>> THEN <<>> ELSE Head(ss) \o Concat(Tail(ss))

RECURSIVE JoinLines(_)
JoinLines(ls) ==
    IF ls = <<>> THEN <<>>
    ELSE IF Len(ls) = 1 THEN ls[1]
    ELSE ls[1] \o <<"\n">> \o JoinLines(Tail(ls))

\* a multiple-choice block as prompt_question lays it out, sep between its parts
Block(q, opts, d, sep) ==
    <<"Start:">> \o sep \o q \o sep \o <<"End:">> \o sep \o OptionsStart \o sep
        \o JoinLines(opts) \o <<"\n", d>> \o sep \o OptionsEnd

\* a true/false block as prompt_true_false_binary lays it out
TFBlock(q, a, sep) ==
    <<"Start:">> \o sep \o q \o sep \o <<"End:">> \o sep \o answerStart \o sep
        \o <<a>> \o sep \o answerEnd

\* an open question as prompt_open lays it out
OpenBlock(q, sep) == <<"Start:">> \o sep \o q \o sep \o <<"End:">>

ABCD == << <<"A">>, <<"B">>, <<"C">>, <<"D">> >>

BlockPieces ==
    { [kind |-> "block", question |-> <<"Qa">>, options |-> ABCD,
       digit |-> "2", index |-> 2, sep |-> <<" ">>],
      [kind |-> "block", question |-> <<"Qb", " ", "7">>,
       options |-> << <<"1">>, <<"x", " ", "y">>, <<"3">>, <<"4">> >>,
       digit |-> "0", index |-> 0,
       sep |-> <<"\n">>],
      [kind |-> "block", question |-> <<"Qc">>, options |-> ABCD,
       digit |-> "9", index |-> 9, sep |-> <<>>],
      [kind |-> "block", question |-> <<"Qd">>, options |-> SubSeq(ABCD, 1, 3),
       digit |-> "1", index |-> 1, sep |-> <<" ">>],
      [kind |-> "block", question |-> <<"Qe">>, options |-> ABCD \o << <<"E">> >>,
       digit |-> "3", index |-> 3, sep |-> <<"\n">>] }

RawPieces ==
    { [kind |-> "raw", toks |-> t] :
        t \in { <<"Start:">>, <<"End:">>, <<"Options">>, <<" ">>, <<"\n">>,
                <<"5">>, <<"w">>,
                TFBlock(<<"Qt">>, "1", <<" ">>),
                OpenBlock(<<"Qo">>, <<"\n">>),
                <<"Start:", " ", "Qf", " ", "End:", " ">> \o OptionsStart
                    \o <<" ">> \o JoinLines(ABCD) \o <<"\n", "2", " ">> } }

Pieces == BlockPieces \cup RawPieces

Render(piece) ==
    IF piece.kind = "block"
    THEN Block(piece.question, piece.options, piece.digit, piece.sep)
    ELSE piece.toks

RenderAll(ps) == Concat([n \in 1..Len(ps) |-> Render(ps[n])])

PieceSeqs == UNION {[1..n -> Pieces] : n \in 0..MaxPieces}

----------------------------------------------------------------------------
(* The external client and the values request_ai handles *)

top_models ==
    << "gpt-4", "gpt-4.1", "gpt-4.1-mini", "gpt-4.1-nano", "gpt-4.5",
       "deepseek-v3", "deepseek-r1", "deepseek-r1-turbo", "deepseek-v3-0324",
       "deepseek-v3-0324-turbo", "deepseek-r1-0528", "deepseek-r1-0528-turbo",
       "deepseek-r1-distill-llama-70b", "deepseek-r1-distill-qwen-14b",
       "deepseek-r1-distill-qwen-32b", "grok-3", "grok-3-r1" >>

NumModels == Len(top_models)

\* "Brak odpowiedzi od zadnego modelu." (the z of the fourth word carries a dot
\* above in the source; it is no marker, whitespace or digit either way)
NoAnswerContent ==
    <<"Brak", " ", "odpowiedzi", " ", "od", " ", "zadnego", " ", "modelu.">>

\* the value of the final return of request_ai
NoAnswer == [model |-> None, content |-> NoAnswerContent, time |-> None]

\* message contents a model may return, before .strip()
RawContents ==
    { <<"\n">> \o Block(<<"Qa">>, ABCD, "2", <<"\n">>) \o <<"\n">>,
      TFBlock(<<"Qt">>, "0", <<" ">>) \o <<" ">>,
      <<" ">> \o OpenBlock(<<"Qo">>, <<" ">>) \o <<" ", "Start:", " ", "Qp">>,
      <<"w", " ", "w">>,
      <<" ">> }

\* what client.chat.completions.create does in its worker thread: it raises,
\* or returns a response with no choices, with a message whose content is
\* None, or with a message that has content
ClientResults ==
    { [t |-> "raise", exc |-> "Exception"],
      [t |-> "return", choices |-> <<>>],
      [t |-> "return", choices |-> << [content |-> None] >>] }
    \cup { [t |-> "return", choices |-> << [content |-> Some(c)] >>] :
             c \in RawContents }

\* response.choices[0].message.content.strip(): the content, or the exception
\* the expression raises
Content(r) ==
    IF r.t = "raise" THEN [exc |-> r.exc]
    ELSE IF Len(r.choices) = 0 THEN [exc |-> "IndexError"]
    ELSE IF r.choices[1].content = None THEN [exc |-> "AttributeError"]
    ELSE [exc |-> "", content |-> Strip(r.choices[1].content[1])]

\* the classes that derive from Exception among those raised here
ExceptionClasses == {"Exception", "IndexError", "AttributeError", "TimeoutError"}

\* a requester that handles the timeout alone
CaughtTimeoutOnly(exc) == exc = "TimeoutError"

\* except asyncio.TimeoutError / except Exception: whether a clause catches exc
Caught(exc) == exc = "TimeoutError" \/ exc \in ExceptionClasses

\* a requester that gives up at the first failure
BreakAfterFailure(n) == NumModels + 1

\* a requester that skips the model after a failed one
SkipAfterFailure(n) == n + 2

\* a requester that starts over once the list is exhausted
WrapAfterFailure(n) == IF n = NumModels THEN 1 ELSE n + 1

\* "continue": the for loop takes the next model of top_models
AfterFailure(n) == n + 1

\* time.time() - start_time, in seconds
Elapsed == {0, 89}

----------------------------------------------------------------------------
(* The prompts and the request bodies of the verify handlers *)

\* a prompt is a str: the name of its template, then the text put into it
prompt_question == <<"prompt_question">>

prompt_true_false_binary == <<"prompt_true_false_binary">>

prompt_open == <<"prompt_open">>

\* bodies of POST /verify_ABCD; indices are not validated
VerifyRequest ==
    { [question |-> <<"Qa">>, options |-> ABCD,
       correctOptionIndex |-> 2, userOptionIndex |-> u] : u \in {1, 7} }

\* bodies of POST /verify_TRUEFALSE
VerifyTFRequest == { [question |-> <<"Qt">>, answer |-> 1, optionAnswer |-> 0] }

\* bodies of POST /verify_OPEN
VerifyOpenRequest == { [question |-> <<"Qo">>, userAnswer |-> <<"w">>] }

\* the f-string of a verify handler: its template with the fields of the
\* request formatted into it
prompt_explanation(template, fields) == <<template>> \o fields

\* how JSONResponse renders a dict: a JSON object, where a str would be a
\* JSON string ([type |-> "string", value |-> s])
JsonObject(d) == [type |-> "object", value |-> d]

----------------------------------------------------------------------------
(* The request: one inbound HTTP request from its arrival to its response *)

Init ==
    /\ pc = "idle"
    /\ endpoint = "none"
    /\ prompt = None
    /\ requests = <<>>
    /\ i = 1
    /\ cur = "none"
    /\ running = {}
    /\ calls = <<>>
    /\ outcomes = <<>>
    /\ caught = ""
    /\ result = None
    /\ response = None
    /\ pieces = <<>>
    /\ text = <<>>
    /\ parsed = [by |-> "none", value |-> <<>>]

\* a handler up to its "await request_ai(...)": the invocation of request_ai
Invoke(ep, p) ==
    /\ pc = "idle"
    /\ pc' = "loop"
    /\ endpoint' = ep
    /\ prompt' = Some(p)
    /\ requests' = Append(requests, p)
    /\ i' = 1
    /\ UNCHANGED <<cur, running, calls, outcomes, caught, result, response, parseVars>>

chat == Invoke("chatABCD", prompt_question)

chat_true_false == Invoke("chatTRUEFALSE", prompt_true_false_binary)

chat_open == Invoke("chatOPEN", prompt_open)

verify_ABCD ==
    \E request \in VerifyRequest :
        Invoke("verify_ABCD",
               prompt_explanation("verify_ABCD",
                   <<"question:">> \o request.question
                       \o <<"options:">> \o Concat(request.options)
                       \o <<"correctOptionIndex:", ToString(request.correctOptionIndex),
                            "userOptionIndex:", ToString(request.userOptionIndex)>>))

verify_TRUEFALSE ==
    \E request \in VerifyTFRequest :
        Invoke("verify_TRUEFALSE",
               prompt_explanation("verify_TRUEFALSE",
                   <<"question:">> \o request.question
                       \o <<"answer:", ToString(request.answer),
                            "optionAnswer:", ToString(request.optionAnswer)>>))

verify_OPEN ==
    \E request \in VerifyOpenRequest :
        Invoke("verify_OPEN",
               prompt_explanation("verify_OPEN",
                   <<"question:">> \o request.question
                       \o <<"userAnswer:">> \o request.userAnswer))

\* request_ai, the head of the for loop: asyncio.to_thread hands the call for
\* top_models[i] to the executor and wait_for awaits it
TryModel ==
    /\ pc = "loop"
    /\ i <= NumModels
    /\ Len(calls) < MaxCalls
    /\ calls' = Append(calls, top_models[i])
    /\ cur' = "queued"
    /\ pc' = "await"
    /\ UNCHANGED <<endpoint, prompt, requests, i, running, outcomes, caught,
                   result, response, parseVars>>

\* a free worker thread of the executor takes the queued call and enters
\* client.chat.completions.create
WorkerStart ==
    /\ pc = "await"
    /\ cur = "queued"
    /\ Cardinality(running) < PoolSize
    /\ running' = running \cup {i}
    /\ cur' = "running"
    /\ UNCHANGED <<pc, endpoint, prompt, requests, i, calls, outcomes, caught,
                   result, response, parseVars>>

\* the awaited call ends within the timeout with client result r, after
\* elapsed seconds: the rest of the try body, or an except clause
CallReturns(r, elapsed) ==
    /\ pc = "await"
    /\ cur = "running"
    /\ running' = running \ {i}
    /\ cur' = "none"
    /\ LET c == Content(r)
       IN  IF c.exc = ""
           THEN /\ result' = Some([model   |-> Some(top_models[i]),
                                   content |-> c.content,
                                   time    |-> Some(elapsed)])
                /\ outcomes' = Append(outcomes, "ok")
                /\ pc' = "returned"
                /\ UNCHANGED <<i, caught>>
           ELSE /\ outcomes' = Append(outcomes, "fail")
                /\ result' = result
                /\ IF Caught(c.exc)
                   THEN pc' = "loop" /\ i' = AfterFailure(i) /\ caught' = c.exc
                   ELSE pc' = "raised" /\ UNCHANGED <<i, caught>>
    /\ UNCHANGED <<endpoint, prompt, requests, calls, response, parseVars>>

\* wait_for gives up after 90 seconds and raises asyncio.TimeoutError.  A call
\* still queued is cancelled; a call a worker thread is executing cannot be
\* interrupted, and its thread stays inside create()
Timeout ==
    /\ pc = "await"
    /\ cur' = "none"
    /\ outcomes' = Append(outcomes, "fail")
    /\ IF Caught("TimeoutError")
       THEN pc' = "loop" /\ i' = AfterFailure(i) /\ caught' = "TimeoutError"
       ELSE pc' = "raised" /\ UNCHANGED <<i, caught>>
    /\ UNCHANGED <<endpoint, prompt, requests, running, calls, result, response, parseVars>>

\* the worker threads whose call nobody awaits any more
Abandoned == running \ (IF pc = "await" /\ cur = "running" THEN {i} ELSE {})

\* an abandoned worker thread leaves create(); its result is dropped
AbandonedFinish(m) ==
    /\ m \in Abandoned
    /\ running' = running \ {m}
    /\ UNCHANGED <<pc, endpoint, prompt, requests, i, cur, calls, outcomes,
                   caught, result, response, parseVars>>

\* request_ai after the for loop: no model returned a valid response
Exhausted ==
    /\ pc = "loop"
    /\ i > NumModels
    /\ result' = Some(NoAnswer)
    /\ pc' = "returned"
    /\ UNCHANGED <<endpoint, prompt, requests, i, cur, running, calls, outcomes,
                   caught, response, parseVars>>

\* the body a handler answers with, given what request_ai returned
Body(ep, res) ==
    CASE ep = "chatABCD" ->
            [model |-> res.model, questions |-> parse_questions(res.content)]
      [] ep = "chatTRUEFALSE" ->
            [model |-> res.model, questions |-> parse_true_false_binary(res.content)]
      [] ep = "chatOPEN" ->
            [model |-> res.model, questions |-> parse_open_questions(res.content)]
      [] OTHER ->
            [verify |-> JsonObject(res)]

\* a handler after its await: parse (chat handlers) and return the JSONResponse
Respond ==
    /\ pc = "returned"
    /\ response' = Some(Body(endpoint, result[1]))
    /\ pc' = "responded"
    /\ UNCHANGED <<endpoint, prompt, requests, i, cur, running, calls, outcomes,
                   caught, result, parseVars>>

Next ==
    \/ chat
    \/ chat_true_false
    \/ chat_open
    \/ verify_ABCD
    \/ verify_TRUEFALSE
    \/ verify_OPEN
    \/ TryModel
    \/ WorkerStart
    \/ \E r \in ClientResults, elapsed \in Elapsed : CallReturns(r, elapsed)
    \/ Timeout
    \/ \E m \in running : AbandonedFinish(m)
    \/ Exhausted
    \/ Respond

Spec == Init /\ [][Next]_vars

\* every await of request_ai ends (the call returns or raises, or its timeout
\* fires) and the event loop runs the coroutine whenever it can continue
FairSpec ==
    /\ Spec
    /\ WF_vars(TryModel)
    /\ WF_vars(Timeout \/ \E r \in ClientResults, elapsed \in Elapsed : CallReturns(r, elapsed))
    /\ WF_vars(Exhausted)

----------------------------------------------------------------------------
(* The parsers as pure functions: every input put together from at most     *)
(* MaxPieces pieces, and each parser applied to it                          *)

ParseInit ==
    /\ pc = "idle"
    /\ endpoint = "none"
    /\ prompt = None
    /\ requests = <<>>
    /\ i = 1
    /\ cur = "none"
    /\ running = {}
    /\ calls = <<>>
    /\ outcomes = <<>>
    /\ caught = ""
    /\ result = None
    /\ response = None
    /\ pieces \in PieceSeqs
    /\ text = RenderAll(pieces)
    /\ parsed = [by |-> "none", value |-> <<>>]

ParseQuestions ==
    /\ parsed.by = "none"
    /\ parsed' = [by |-> "parse_questions", value |-> parse_questions(text)]
    /\ UNCHANGED <<reqVars, pieces, text>>

ParseTrueFalseBinary ==
    /\ parsed.by = "none"
    /\ parsed' = [by    |-> "parse_true_false_binary",
                  value |-> parse_true_false_binary(text)]
    /\ UNCHANGED <<reqVars, pieces, text>>

ParseOpenQuestions ==
    /\ parsed.by = "none"
    /\ parsed' = [by |-> "parse_open_questions", value |-> parse_open_questions(text)]
    /\ UNCHANGED <<reqVars, pieces, text>>

ParseNext == ParseQuestions \/ ParseTrueFalseBinary \/ ParseOpenQuestions

ParseSpec == ParseInit /\ [][ParseNext]_vars

----------------------------------------------------------------------------
(* Properties of request_ai and the handlers *)

AllFailed == Len(outcomes) = NumModels /\ \A n \in 1..NumModels : outcomes[n] = "fail"

Returned == pc \in {"returned", "responded"}

\* C1: the outbound calls of one invocation are a prefix of top_models in its
\* order, no model is called twice, no call follows a call that succeeded,
\* and the model returned is the one whose call succeeded first
C1_OrderedPrefixStopsAtSuccess ==
    /\ Len(calls) <= NumModels
    /\ calls = SubSeq(top_models, 1, Len(calls))
    /\ \A a, b \in 1..Len(calls) : a # b => calls[a] # calls[b]
    /\ \A n \in 1..Len(outcomes) : outcomes[n] = "ok" => n = Len(calls)
    /\ (result # None /\ result[1].model # None) =>
          \E n \in 1..Len(outcomes) :
              /\ outcomes[n] = "ok"
              /\ \A m \in 1..(n - 1) : outcomes[m] = "fail"
              /\ result[1].model = Some(calls[n])

C1_Witness ==
    /\ pc = "returned"
    /\ Len(calls) = 3
    /\ outcomes = <<"fail", "fail", "ok">>
    /\ result[1].model = Some(top_models[3])

\* C2: when every model call failed request_ai returns the no-answer value
\* and does not raise, the three parsers return an empty sequence for its
\* content, and a model of None is returned only after every model failed
C2_AllFailedGivesNoAnswer ==
    /\ AllFailed => pc # "raised"
    /\ (AllFailed /\ Returned) =>
          /\ result = Some([model |-> None, content |-> NoAnswerContent, time |-> None])
          /\ parse_questions(result[1].content) = <<>>
          /\ parse_true_false_binary(result[1].content) = <<>>
          /\ parse_open_questions(result[1].content) = <<>>
    /\ (AllFailed /\ pc = "responded"
            /\ endpoint \in {"chatABCD", "chatTRUEFALSE", "chatOPEN"}) =>
          response[1] = [model |-> None, questions |-> <<>>]
    /\ (result # None /\ result[1].model = None) =>
          AllFailed /\ calls = top_models

C2_Witness ==
    /\ pc = "responded"
    /\ endpoint = "chatOPEN"
    /\ AllFailed
    /\ result[1].model = None
    /\ response[1].questions = <<>>

\* C3 as stated: at most one call to the client started by the request is in
\* flight, also after a timeout when the loop has moved on to the next model
C3_AtMostOneCallInFlight == Cardinality(running) <= 1

\* C4: a timeout, an exception of the client and a malformed response are all
\* recovered by going on to the next model; none reaches the caller and no
\* failed attempt is returned as the result
C4_FailuresRecovered ==
    /\ pc # "raised"
    /\ \A n \in 1..Len(outcomes) :
          outcomes[n] = "fail" =>
              /\ result # None => result[1].model # Some(calls[n])
              /\ n < NumModels => \/ pc = "loop" /\ i = n + 1
                                  \/ Len(calls) > n /\ calls[n + 1] = top_models[n + 1]
              /\ n = NumModels => \/ pc = "loop" /\ i = n + 1
                                  \/ Returned /\ result = Some(NoAnswer)

C4_Witness ==
    /\ pc = "returned"
    /\ caught = "AttributeError"
    /\ outcomes = <<"fail", "fail", "fail", "ok">>
    /\ result[1].model = Some(top_models[4])

\* C5: every invocation of request_ai returns a result after at most
\* len(top_models) outbound calls, and the loop never goes back to an
\* earlier model
C5_ReturnsWithinNumModelsCalls ==
    /\ [](Len(calls) <= NumModels)
    /\ [][i' >= i]_vars
    /\ (pc \in {"loop", "await"}) ~> Returned

C5_Witness ==
    /\ pc = "returned"
    /\ Len(calls) = NumModels
    /\ calls[NumModels] = "grok-3-r1"
    /\ result = Some(NoAnswer)

VerifyEndpoints == {"verify_ABCD", "verify_TRUEFALSE", "verify_OPEN"}

\* C10 as stated: a verify handler invokes request_ai once with its prompt,
\* applies no parser, and answers with the content text of the result alone,
\* also when every model failed
C10_VerifyAnswersContentText ==
    (pc = "responded" /\ endpoint \in VerifyEndpoints) =>
        /\ requests = <<prompt[1]>>
        /\ Head(prompt[1]) = endpoint
        /\ response[1].verify.type = "string"
        /\ response[1].verify.value = result[1].content

----------------------------------------------------------------------------
(* Properties of the parsers *)

\* the non-empty lines of s, counted at their first non-whitespace token
NonEmptyLineCount(s) ==
    Cardinality({k \in 1..Len(s) :
        /\ s[k] \notin WS
        /\ \A j \in 1..(k - 1) :
              (\A m \in j..(k - 1) : s[m] \notin LineBreaks) => s[j] \in WS})

\* the sequences subs occur in s one after the other, from position from on
RECURSIVE OrderedIn(_, _, _)
OrderedIn(s, subs, from) ==
    IF subs = <<>> THEN TRUE
    ELSE LET at == {p \in from..Len(s) : LitAt(s, p, Head(subs))}
         IN  at # {} /\ OrderedIn(s, Tail(subs), Min(at) + Len(Head(subs)))

Trimmed(line) ==
    /\ line # <<>>
    /\ line[1] \notin WS
    /\ line[Len(line)] \notin WS
    /\ \A k \in 1..Len(line) : line[k] \notin LineBreaks

\* C6: every record of parse_questions has exactly 4 options, the non-empty
\* trimmed lines of its match's options text in their order, and a match
\* whose options text has another number of non-empty lines gives no record
C6_ExactlyFourOptionsOrNoRecord ==
    parsed.by = "parse_questions" =>
        LET matches == FindAll(text, 1)
            kept == SelectSeq(matches, LAMBDA m : NonEmptyLineCount(m[2]) = 4)
        IN  /\ Len(parsed.value) = Len(kept)
            /\ \A n \in 1..Len(parsed.value) :
                  LET options == parsed.value[n].options
                  IN  /\ Len(options) = 4
                      /\ \A k \in 1..4 : Trimmed(options[k])
                      /\ n <= Len(kept) => OrderedIn(kept[n][2], options, 1)

C6_Witness ==
    /\ parsed.by = "parse_questions"
    /\ Len(FindAll(text, 1)) = 3
    /\ Len(parsed.value) = 1
    /\ \E n \in 1..3 : NonEmptyLineCount(FindAll(text, 1)[n][2]) = 3
    /\ \E n \in 1..3 : NonEmptyLineCount(FindAll(text, 1)[n][2]) = 5

IsWhitespace(piece) == piece.kind = "raw" /\ \A k \in 1..Len(piece.toks) : piece.toks[k] \in WS

WellFormedBlock(piece) == piece.kind = "block" /\ Len(piece.options) = 4

\* the text is well-formed blocks, with at most whitespace between them
WellFormedText ==
    \A n \in 1..Len(pieces) : WellFormedBlock(pieces[n]) \/ IsWhitespace(pieces[n])

ExpectedQuestions ==
    LET blocks == SelectSeq(pieces, WellFormedBlock)
    IN  [n \in 1..Len(blocks) |->
            [question           |-> blocks[n].question,
             options            |-> blocks[n].options,
             correctOptionIndex |-> blocks[n].index]]

\* C7: for a text of well-formed multiple-choice blocks parse_questions
\* returns one record per block, in input order, with the block's question,
\* its 4 option lines and its trailing digit
C7_OneRecordPerWellFormedBlock ==
    (parsed.by = "parse_questions" /\ WellFormedText) =>
        parsed.value = ExpectedQuestions

C7_Witness ==
    /\ parsed.by = "parse_questions"
    /\ WellFormedText
    /\ Len(pieces) = 3
    /\ Len(parsed.value) = 2
    /\ parsed.value[1].question # parsed.value[2].question

\* C8 as stated: parse_open_questions returns one question per fragment
\* after a "Start:" that contains "End:", and skips a fragment without one
C8_FragmentWithoutEndSkipped ==
    parsed.by = "parse_open_questions" =>
        LET parts == Split(text, "Start:")
        IN  Len(parsed.value) =
                Cardinality({n \in 2..Len(parts) :
                                \E k \in 1..Len(parts[n]) : parts[n][k] = "End:"})

\* C9 as stated: correctOptionIndex of every record is in 0..3
C9_IndexInZeroToThree ==
    parsed.by = "parse_questions" =>
        \A n \in 1..Len(parsed.value) : parsed.value[n].correctOptionIndex \in 0..3

\* C9 amended: correctOptionIndex of every record is one decimal digit, 0..9
C9_IndexIsOneDigit ==
    parsed.by = "parse_questions" =>
        \A n \in 1..Len(parsed.value) : parsed.value[n].correctOptionIndex \in 0..9

C9_Witness ==
    /\ parsed.by = "parse_questions"
    /\ \E n \in 1..Len(parsed.value) : parsed.value[n].correctOptionIndex = 9

====
